---- MODULE Spec2Model ----
(***************************************************************************)
(* Model of two components of the Ambari agent:                            *)
(*   resource_management/core/logger.py      (Logger, redaction filter)    *)
(*   KERBEROS/package/scripts/kerberos_common.py (KerberosScript)          *)
(*                                                                         *)
(* A Python string is a sequence of atoms.  An atom is one character, or   *)
(* one literal word of the source that no operation ever splits            *)
(* ("kadmin.local", "addprinc").  The texts Logger filters and the shell   *)
(* placeholder markers are sequences of single characters.                 *)
(***************************************************************************)
EXTENDS Integers, Sequences, FiniteSets, TLC

VARIABLES sensitive_strings, sink, fs, dirs, kdc, output_files, call

vars == <<sensitive_strings, sink, fs, dirs, kdc, output_files, call>>

\* Python's None, kept distinct from every string: the atom occurs in no input.
None == <<"<None>">>

(***************************************************************************)
(* Python string primitives                                                *)
(***************************************************************************)
RECURSIVE Replace(_, _, _)
\* str.replace(old, new): leftmost, non-overlapping occurrences; an empty
\* `old` matches before every character and at the end.
Replace(text, old, new) ==
  IF old = <<>>
    THEN IF text = <<>> THEN new
         ELSE new \o <<Head(text)>> \o Replace(Tail(text), old, new)
  ELSE IF \E i \in 1..(Len(text) - Len(old) + 1) :
            SubSeq(text, i, i + Len(old) - 1) = old
    THEN LET first == CHOOSE i \in 1..(Len(text) - Len(old) + 1) :
                        /\ SubSeq(text, i, i + Len(old) - 1) = old
                        /\ \A j \in 1..(i - 1) : SubSeq(text, j, j + Len(old) - 1) # old
         IN SubSeq(text, 1, first - 1) \o new
              \o Replace(SubSeq(text, first + Len(old), Len(text)), old, new)
  ELSE text

\* `sub in text`
Contains(text, sub) ==
  \E i \in 0..(Len(text) - Len(sub)) : SubSeq(text, i + 1, i + Len(sub)) = sub

\* All orders in which a dict of the given key set can be iterated.
Orders(S) ==
  {o \in [1..Cardinality(S) -> S] : \A i, j \in DOMAIN o : i # j => o[i] # o[j]}

(***************************************************************************)
(* Logger                                                                  *)
(***************************************************************************)
\* resource_management.core.shell.ENV_PLACEHOLDER, "[RMF_ENV_PLACEHOLDER]"
ENV_PLACEHOLDER ==
  <<"[", "R", "M", "F", "_", "E", "N", "V", "_", "P", "L", "A", "C", "E", "H", "O", "L", "D", "E", "R", "]">>

\* resource_management.core.shell.EXPORT_PLACEHOLDER, "[RMF_EXPORT_PLACEHOLDER]"
EXPORT_PLACEHOLDER ==
  <<"[", "R", "M", "F", "_", "E", "X", "P", "O", "R", "T", "_", "P", "L", "A", "C", "E", "H", "O", "L", "D", "E", "R", "]">>

\* Keys of resource_management.core.shell.PLACEHOLDERS_TO_STR: markers the
\* shell module puts into a command line.
PLACEHOLDERS_TO_STR == {ENV_PLACEHOLDER, EXPORT_PLACEHOLDER}

RECURSIVE ReplaceAll(_, _, _)
\* for unprotected_string, protected_string in mapping (in order `order`):
\*   text = text.replace(unprotected_string, protected_string)
ReplaceAll(text, mapping, order) ==
  IF order = <<>> THEN text
  ELSE ReplaceAll(Replace(text, Head(order), mapping[Head(order)]), mapping, Tail(order))

RECURSIVE StripPlaceholders(_, _)
\* for placeholder in keys: text = text.replace(placeholder, '')
\* Removing a marker that sits inside another one makes the other, which is
\* removed only if it comes later in keys.
StripPlaceholders(text, keys) ==
  IF keys = <<>> THEN text
  ELSE StripPlaceholders(Replace(text, Head(keys), <<>>), Tail(keys))

\* Logger.filter_text when the dict of sensitive strings is iterated in `order`
\* and PLACEHOLDERS_TO_STR.keys() is `keys`.
filter_text_in(text, registry, order, keys) ==
  StripPlaceholders(ReplaceAll(text, registry, order), keys)

\* Logger.filter_text: the results over the iteration orders of the two dicts.
filter_text(text, registry) ==
  {filter_text_in(text, registry, o, k) :
     o \in Orders(DOMAIN registry), k \in Orders(PLACEHOLDERS_TO_STR)}

(***************************************************************************)
(* base64 (Python 2 standard library, as called by kerberos_common.py).    *)
(* Binary data is a sequence of bytes 0..255.                              *)
(***************************************************************************)
B64Alphabet ==
  <<"A","B","C","D","E","F","G","H","I","J","K","L","M","N","O","P",
    "Q","R","S","T","U","V","W","X","Y","Z","a","b","c","d","e","f",
    "g","h","i","j","k","l","m","n","o","p","q","r","s","t","u","v",
    "w","x","y","z","0","1","2","3","4","5","6","7","8","9","+","/">>

B64Chars == {B64Alphabet[i] : i \in DOMAIN B64Alphabet}

B64Pad == "="

\* table_a2b_base64: the 6-bit value of an alphabet character.
B64Val(c) == (CHOOSE i \in DOMAIN B64Alphabet : B64Alphabet[i] = c) - 1

RECURSIVE B64FindValid(_, _, _)
\* binascii_find_valid: the (num+1)th valid character from position i on
\* (the pad counts as valid), or "" when there is none.
B64FindValid(s, i, num) ==
  IF i > Len(s) THEN ""
  ELSE IF s[i] \in B64Chars \cup {B64Pad}
    THEN IF num = 0 THEN s[i] ELSE B64FindValid(s, i + 1, num - 1)
  ELSE B64FindValid(s, i + 1, num)

RECURSIVE A2B(_, _, _, _, _, _)
\* binascii.a2b_base64: characters outside the alphabet are skipped, a pad
\* in the third or fourth position of a quad ends the input, and bits left
\* over at the end are an "Incorrect padding" error.
A2B(s, i, quad_pos, leftchar, leftbits, out) ==
  IF i > Len(s) THEN [ok |-> leftbits = 0, data |-> out]
  ELSE IF s[i] = B64Pad
    THEN IF quad_pos < 2 \/ (quad_pos = 2 /\ B64FindValid(s, i, 1) # B64Pad)
           THEN A2B(s, i + 1, quad_pos, leftchar, leftbits, out)
           ELSE [ok |-> TRUE, data |-> out]
  ELSE IF s[i] \notin B64Chars
    THEN A2B(s, i + 1, quad_pos, leftchar, leftbits, out)
  ELSE LET acc  == leftchar * 64 + B64Val(s[i])
           bits == leftbits + 6
           qp   == (quad_pos + 1) % 4
       IN IF bits >= 8
            THEN A2B(s, i + 1, qp, acc % (2 ^ (bits - 8)), bits - 8,
                     Append(out, (acc \div (2 ^ (bits - 8))) % 256))
            ELSE A2B(s, i + 1, qp, acc, bits, out)

\* base64.b64decode(s): [ok, data]; ok = FALSE is the TypeError it raises.
b64decode(s) == A2B(s, 1, 0, 0, 0, <<>>)

RECURSIVE b64encode(_)
\* base64.b64encode(data)
b64encode(data) ==
  LET ch(v) == B64Alphabet[v + 1] IN
  IF data = <<>> THEN <<>>
  ELSE IF Len(data) = 1
    THEN <<ch(data[1] \div 4), ch((data[1] % 4) * 16), B64Pad, B64Pad>>
  ELSE IF Len(data) = 2
    THEN <<ch(data[1] \div 4), ch((data[1] % 4) * 16 + data[2] \div 16),
           ch((data[2] % 16) * 4), B64Pad>>
  ELSE <<ch(data[1] \div 4), ch((data[1] % 4) * 16 + data[2] \div 16),
         ch((data[2] % 16) * 4 + data[3] \div 64), ch(data[3] % 64)>>
       \o b64encode(SubSeq(data, 4, Len(data)))

(***************************************************************************)
(* Values and the world a KerberosScript call runs in                      *)
(*   fs    : path -> [content, mode, uid, gid]   (the regular files)       *)
(*   dirs  : path -> [mode, uid, gid]            (the directories)         *)
(*   output_files : path -> the text written to a file object the caller   *)
(*           holds open for appending and not yet flushed to the file      *)
(*   kdc   : principal -> key (a password, or a random key)                *)
(*   temps : the paths tempfile.mkstemp has handed to the current call     *)
(*   cmds  : the subprocesses the current call has run                     *)
(***************************************************************************)
\* A dict that is None.  A dict is a record of the values get_property_value
\* reads (None for a key that is missing or holds None) and the set of its
\* keys.
NoIdentity == [none |-> TRUE]

\* A list of dicts that is None (params.kerberos_command_params, identities).
\* A list that is given holds dicts, none of them None.
NoParams == <<NoIdentity>>

\* get_property_value(dictionary, property_name)
get_property_value(dictionary, property_name) ==
  CASE property_name = "principal"   -> dictionary.principal
    [] property_name = "password"    -> dictionary.password
    [] property_name = "keytab"      -> dictionary.keytab
    [] property_name = "keytab_file" -> dictionary.keytab_file


\* The dict with the given values under the given keys.
Dict(principal, password, keytab, keytab_file, keys) ==
  [principal |-> principal, password |-> password,
   keytab |-> keytab, keytab_file |-> keytab_file, keys |-> keys]

\* The dict that has a key for each value that is not None.
Identity(principal, password, keytab, keytab_file) ==
  Dict(principal, password, keytab, keytab_file,
       {k \in {"principal", "password", "keytab", "keytab_file"} :
          (CASE k = "principal" -> principal
             [] k = "password" -> password
             [] k = "keytab" -> keytab
             [] k = "keytab_file" -> keytab_file) # None})

\* Return values: None, a boolean, a (code, out) pair, a string.
RNone == [kind |-> "None"]
RBool(b) == [kind |-> "bool", b |-> b]
RPair(code, out) == [kind |-> "pair", code |-> code, out |-> out]
RStr(s) == [kind |-> "str", s |-> s]

\* How a call ends: it returns ret, or raises exc with message msg.
Return(w, v) == [w |-> w, raised |-> FALSE, exc |-> "", msg |-> <<>>, ret |-> v]
Raise(w, e, m) == [w |-> w, raised |-> TRUE, exc |-> e, msg |-> m, ret |-> RNone]

\* Number of names tempfile.mkstemp can choose from.
MaxTemps == 3

TempNames == {<<"/", "tmp", "/", "tmp" \o ToString(i)>> : i \in 1..MaxTemps}

MkstempMode == 384 \* 0600

\* tempfile.mkstemp(): creates an empty file under a fresh random name, one
\* that is not on disk and that the call has not been handed before.  Names
\* are interchangeable, so the choice matters only between the names one call
\* draws: env.names[k], if given and fresh, is the k-th name of the call.
mkstemp(w, env) ==
  LET k == Len(w.temps) + 1
      fresh == {p \in TempNames :
                  p \notin DOMAIN w.fs /\ \A i \in DOMAIN w.temps : w.temps[i] # p}
      path == IF k \in DOMAIN env.names /\ env.names[k] \in fresh
                THEN env.names[k]
                ELSE CHOOSE p \in fresh : TRUE
  IN [path |-> path,
      w |-> [w EXCEPT !.fs = [q \in DOMAIN w.fs \cup {path} |->
                                IF q = path
                                  THEN [content |-> <<>>, mode |-> MkstempMode,
                                        uid |-> 0, gid |-> 0]
                                  ELSE w.fs[q]],
                      !.temps = Append(@, path)]]

\* n names are free for the temporary files of one call.
CanMkstemp(files, n) == Cardinality(TempNames \ DOMAIN files) >= n

\* os.write(fd, data) / f.write(data) on a file that exists
WriteFile(w, path, data) == [w EXCEPT !.fs[path].content = data]

\* os.remove(path)
RemoveFile(w, path) ==
  [w EXCEPT !.fs = [q \in DOMAIN w.fs \ {path} |-> w.fs[q]]]

RECURSIVE RStripSlash(_)
\* head.rstrip('/')
RStripSlash(p) ==
  IF p # <<>> /\ p[Len(p)] = "/" THEN RStripSlash(SubSeq(p, 1, Len(p) - 1)) ELSE p

\* path.rfind('/') + 1
AfterLastSlash(path) ==
  IF \E i \in 1..Len(path) : path[i] = "/"
    THEN CHOOSE k \in 1..Len(path) :
           path[k] = "/" /\ \A j \in (k + 1)..Len(path) : path[j] # "/"
    ELSE 0

\* os.path.split(path)[0]: up to the last slash, trailing slashes stripped
\* unless the head is all slashes.
path_head(path) ==
  IF \E k \in 1..AfterLastSlash(path) : path[k] # "/"
    THEN RStripSlash(SubSeq(path, 1, AfterLastSlash(path)))
    ELSE SubSeq(path, 1, AfterLastSlash(path))

\* os.path.split(path)[1]
path_tail(path) == SubSeq(path, AfterLastSlash(path) + 1, Len(path))

\* The working directory of the agent, against which a relative path is
\* resolved.
Cwd == <<"/">>

RECURSIVE walk(_, _, _)
\* Path resolution from directory cur over the rest of a path: empty
\* components and "." are skipped, ".." goes up, every component but the last
\* must be a directory.  The result names what the path reaches (kind "dir",
\* "file", or "none" for a free name in an existing directory, with slash
\* when slashes follow the name) or the error of the lookup.
walk(cur, rest, w) ==
  IF rest = <<>> THEN [err |-> "", path |-> cur, kind |-> "dir", slash |-> FALSE]
  ELSE IF Head(rest) = "/" THEN walk(cur, Tail(rest), w)
  ELSE
    LET n == IF \E i \in 1..Len(rest) : rest[i] = "/"
               THEN (CHOOSE i \in 1..Len(rest) :
                       rest[i] = "/" /\ \A j \in 1..(i - 1) : rest[j] # "/") - 1
               ELSE Len(rest)
        name == SubSeq(rest, 1, n)
        after == SubSeq(rest, n + 1, Len(rest))
        last == \A i \in 1..Len(after) : after[i] = "/"
        child == IF cur = <<"/">> THEN cur \o name ELSE cur \o <<"/">> \o name
    IN IF name = <<".">> THEN walk(cur, after, w)
       ELSE IF name = <<"..">> THEN walk(path_head(cur), after, w)
       ELSE IF child \in DOMAIN w.dirs THEN walk(child, after, w)
       ELSE IF child \in DOMAIN w.fs
         THEN IF last
                THEN [err |-> "", path |-> child, kind |-> "file",
                      slash |-> after # <<>>]
                ELSE [err |-> "Not a directory: ", path |-> child,
                      kind |-> "error", slash |-> FALSE]
       ELSE IF last
         THEN [err |-> "", path |-> child, kind |-> "none", slash |-> after # <<>>]
         ELSE [err |-> "No such file or directory: ", path |-> child,
               kind |-> "error", slash |-> FALSE]

\* What the kernel finds at path: fs and dirs are keyed by resolved paths.
namei(path, w) ==
  IF path = <<>>
    THEN [err |-> "No such file or directory: ", path |-> path,
          kind |-> "error", slash |-> FALSE]
    ELSE walk(IF Head(path) = "/" THEN <<"/">> ELSE Cwd, path, w)

\* os.path.isfile(path)
isfile(w, path) == namei(path, w).kind = "file" /\ ~namei(path, w).slash

\* os.path.isdir(path)
isdir(w, path) == namei(path, w).kind = "dir"

\* os.path.exists(path)
exists(w, path) == isfile(w, path) \/ isdir(w, path)

(***************************************************************************)
(* Inputs                                                                  *)
(***************************************************************************)
Principals == {<<"a@REALM">>, <<"b", "\"", "c">>}

\* Random keys the KDC can draw for -randkey.
RandKeys == {<<"<key1>">>, <<"<key2>">>}

KeytabPath == <<"/", "etc", "/", "a.keytab">>

DefaultKeytab == <<"/", "etc", "/", "krb5.keytab">>

\* The bytes kadmin's ktadd writes (a keytab starts with 0x05 0x02).
KeytabBytes == <<5, 2>>

(***************************************************************************)
(* The environment: the shell, kadmin and the KDC behind it                *)
(***************************************************************************)
\* The queries kadmin understands, with what each asks for.
KadminSyntax ==
  {[q |-> <<"getprinc", " ">> \o p, op |-> "getprinc", principal |-> p,
    key |-> None, path |-> None, norandkey |-> FALSE] : p \in Principals}
  \cup
  {[q |-> <<o, " ", "-randkey", " ">> \o p, op |-> o, principal |-> p,
    key |-> None, path |-> None, norandkey |-> FALSE] :
      o \in {"addprinc", "change_password"}, p \in Principals}
  \cup
  {[q |-> <<o, " ", "-pw", " ", "\"">> \o pw \o <<"\"", " ">> \o p, op |-> o,
    principal |-> p, key |-> pw, path |-> None, norandkey |-> FALSE] :
      o \in {"addprinc", "change_password"}, p \in Principals,
      pw \in {<<"pw">>, <<"p", "\"", "w">>}}
  \cup
  {[q |-> <<"ktadd", " ", "-k", " ">> \o f \o <<" ">>
            \o (IF n THEN <<"-norandkey">> ELSE <<>>) \o <<" ">> \o p,
    op |-> "ktadd", principal |-> p, key |-> None, path |-> f, norandkey |-> n] :
      f \in TempNames \cup {KeytabPath}, n \in BOOLEAN, p \in Principals}
  \cup
  {[q |-> <<"ktadd", " ", " ">> \o (IF n THEN <<"-norandkey">> ELSE <<>>)
            \o <<" ">> \o p,
    op |-> "ktadd", principal |-> p, key |-> None, path |-> DefaultKeytab,
    norandkey |-> n] : n \in BOOLEAN, p \in Principals}

\* What the shell hands to kadmin for -q "...": the text between the quotes,
\* its backslash-escaped quotes unescaped.
QueryOfCommand(command) ==
  LET i == CHOOSE j \in 1..Len(command) : command[j] = "-q"
  IN Replace(SubSeq(command, i + 3, Len(command) - 1), <<"\\", "\"">>, <<"\"">>)

\* A file written by a subprocess.
PutFile(files, path, data) ==
  [q \in DOMAIN files \cup {path} |->
     IF q = path THEN [content |-> data, mode |-> MkstempMode, uid |-> 0, gid |-> 0]
     ELSE files[q]]

\* A subprocess that changes nothing.
NoEffect(w, out) == [fs |-> w.fs, kdc |-> w.kdc, out |-> out]

\* The KDC with principal p holding key k.
SetKey(db, p, k) == [x \in DOMAIN db \cup {p} |-> IF x = p THEN k ELSE db[x]]

\* kadmin carrying out the parsed query f; randkey is the key the KDC draws.
KadminDo(f, w, randkey) ==
  CASE f.op = "getprinc" ->
         IF f.principal \in DOMAIN w.kdc
           THEN NoEffect(w, <<"Principal:", " ">> \o f.principal
                              \o <<"\n", "Expiration", " ", "date:">>)
           ELSE NoEffect(w, <<"get_principal:", " ", "Principal", " ", "does", " ",
                              "not", " ", "exist">>)
    [] f.op = "addprinc" ->
         IF f.principal \in DOMAIN w.kdc
           THEN NoEffect(w, <<"add_principal:", " ", "already", " ", "exists">>)
           ELSE [fs |-> w.fs,
                 kdc |-> SetKey(w.kdc, f.principal,
                                IF f.key = None THEN randkey ELSE f.key),
                 out |-> <<"created">>]
    [] f.op = "change_password" ->
         IF f.principal \in DOMAIN w.kdc
           THEN [fs |-> w.fs,
                 kdc |-> SetKey(w.kdc, f.principal,
                                IF f.key = None THEN randkey ELSE f.key),
                 out |-> <<"changed">>]
           ELSE NoEffect(w, <<"change_password:", " ", "Principal", " ", "does", " ",
                              "not", " ", "exist">>)
    [] f.op = "ktadd" ->
         IF f.principal \in DOMAIN w.kdc
           THEN [fs |-> PutFile(w.fs, f.path, KeytabBytes),
                 kdc |-> IF f.norandkey THEN w.kdc
                         ELSE SetKey(w.kdc, f.principal, randkey),
                 out |-> <<"added">>]
           ELSE NoEffect(w, <<"ktadd:", " ", "Principal", " ", "does", " ", "not", " ",
                              "exist">>)

\* kadmin given the queries that match what it was handed.
KadminParsed(forms, w, randkey) ==
  IF forms = {} THEN NoEffect(w, <<"kadmin:", " ", "usage">>)
  ELSE KadminDo(CHOOSE g \in forms : TRUE, w, randkey)

\* A kadmin/kadmin.local run that exits 0: its output and its effect on the
\* KDC and the file system.
Kadmin(command, w, randkey) ==
  KadminParsed({f \in KadminSyntax : f.q = QueryOfCommand(command)}, w, randkey)

\* A subprocess that exits 0: kadmin acts on the KDC, kinit and kdestroy act
\* on the credential cache only.
ShellEffect(command, w, randkey) ==
  IF Head(command) \in {"kadmin.local", "kadmin"} THEN Kadmin(command, w, randkey)
  ELSE NoEffect(w, <<>>)

\* The world after a subprocess ended with `code` and effect `eff`.
Ran(command, via, stdin, w, code, eff) ==
  [code |-> code, out |-> eff.out,
   w |-> [w EXCEPT !.fs = eff.fs, !.kdc = eff.kdc,
                   !.cmds = Append(@, [cmd |-> command, via |-> via,
                                       stdin |-> stdin, code |-> code])]]

\* A subprocess ending with `code`: a nonzero exit has no effect.
Exited(command, via, stdin, w, code, randkey) ==
  Ran(command, via, stdin, w, code,
      IF code = 0 THEN ShellEffect(command, w, randkey)
      ELSE NoEffect(w, <<"error">>))

\* One subprocess run: env.codes[k] is the exit code of the k-th subprocess
\* of the call.
RunProcess(command, via, stdin, w, env) ==
  Exited(command, via, stdin, w, env.codes[Len(w.cmds) + 1], env.randkey)

\* The Fail a nonzero exit raises, its message passed through filter_text.
FailOnExit(command, r, env, value) ==
  IF r.code # 0
    THEN Raise(r.w, "Fail",
               filter_text_in(<<"Execution of '">> \o command
                                \o <<"' returned ", ToString(r.code), ". ">> \o r.out,
                              env.registry, env.order, env.keys))
    ELSE Return(r.w, IF value THEN RPair(r.code, r.out) ELSE RNone)

\* shell.checked_call(command): (0, out), or Fail on a nonzero exit.
checked_call(command, w, env) ==
  FailOnExit(command, RunProcess(command, "checked_call", None, w, env), env, TRUE)

\* Execute(command): the resource runs the command and fails on a nonzero exit.
Execute(command, w, env) ==
  FailOnExit(command, RunProcess(command, "Execute", None, w, env), env, FALSE)

(***************************************************************************)
(* KerberosScript                                                          *)
(***************************************************************************)
\* '%s' % value
Fmt(value) == IF value = None THEN <<"None">> ELSE value

\* invoke_kadmin, lines 151-155: the keytab decoded into the temporary file m.
StageAuthKeytab(kadmin, m, d) ==
  IF ~d.ok
    THEN [ok |-> FALSE, kadmin |-> kadmin, credential |-> <<>>,
          auth_keytab_file |-> m.path, w |-> m.w]
    ELSE [ok |-> TRUE, kadmin |-> kadmin,
          credential |-> <<"-k", " ", "-t", " ">> \o m.path,
          auth_keytab_file |-> m.path, w |-> WriteFile(m.w, m.path, d.data)]

\* invoke_kadmin, lines 133-157: the program, the credential and the staged
\* keytab file; ok = FALSE when b64decode raised.
KadminLogin(admin_identity, w, env) ==
  LET auth_principal ==
        IF admin_identity # NoIdentity
          THEN get_property_value(admin_identity, "principal") ELSE None
      plain(kadmin, credential) ==
        [ok |-> TRUE, kadmin |-> kadmin, credential |-> credential,
         auth_keytab_file |-> None, w |-> w]
  IN IF auth_principal = None THEN plain(<<"kadmin.local">>, <<>>)
     ELSE IF get_property_value(admin_identity, "password") = None
       THEN IF get_property_value(admin_identity, "keytab") # None
              THEN StageAuthKeytab(
                     <<"kadmin", " ", "-p", " ", "\"">> \o auth_principal \o <<"\"">>,
                     mkstemp(w, env),
                     b64decode(get_property_value(admin_identity, "keytab")))
              ELSE plain(<<"kadmin", " ", "-p", " ", "\"">> \o auth_principal \o <<"\"">>,
                         <<"-k", " ", "-t", " ">> \o Fmt(None))
       ELSE plain(<<"kadmin", " ", "-p", " ", "\"">> \o auth_principal \o <<"\"">>,
                  <<"-w", " ", "\"">> \o get_property_value(admin_identity, "password")
                    \o <<"\"">>)

\* invoke_kadmin's command line with the query's quotes left unescaped.
KadminCommandUnescaped(kadmin, credential, default_realm, query) ==
  kadmin \o <<" ">> \o credential \o <<" ">>
    \o (IF (default_realm # None) /\ (Len(default_realm) > 0)
          THEN <<"-r", " ">> \o default_realm ELSE <<>>)
    \o <<" ", "-q", " ", "\"">> \o query \o <<"\"">>

\* invoke_kadmin, lines 159-165: the command line.
KadminCommand(kadmin, credential, default_realm, query) ==
  kadmin \o <<" ">> \o credential \o <<" ">>
    \o (IF (default_realm # None) /\ (Len(default_realm) > 0)
          THEN <<"-r", " ">> \o default_realm ELSE <<>>)
    \o <<" ", "-q", " ", "\"">> \o Replace(query, <<"\"">>, <<"\\", "\"">>) \o <<"\"">>

\* invoke_kadmin, lines 169-171: the finally clause.
KadminFinally(auth_keytab_file, r) ==
  IF auth_keytab_file # None
    THEN [r EXCEPT !.w = RemoveFile(r.w, auth_keytab_file)]
    ELSE r

\* invoke_kadmin, lines 164-171: the try statement.
KadminTry(query, default_realm, login, env) ==
  IF ~login.ok THEN Raise(login.w, "TypeError", <<"Incorrect padding">>)
  ELSE KadminFinally(login.auth_keytab_file,
                     checked_call(KadminCommand(login.kadmin, login.credential,
                                                default_realm, query),
                                  login.w, env))

\* KerberosScript.invoke_kadmin(query, admin_identity, default_realm)
invoke_kadmin(query, admin_identity, default_realm, w, env) ==
  IF (query # None) /\ (Len(query) > 0)
    THEN KadminTry(query, default_realm, KadminLogin(admin_identity, w, env), env)
    ELSE Return(w, RNone)

\* create_keytab_file, lines 188-197: the outcome given invoke_kadmin's.
KeytabFileOutcome(principal, path, r) ==
  IF r.raised
    THEN Raise(r.w, "Fail",
               <<"Failed to create keytab for principal: ">> \o principal
                 \o <<" (in ">> \o Fmt(path) \o <<")">>)
    ELSE Return(r.w, RBool(r.ret.code = 0))

\* KerberosScript.create_keytab_file(principal, path, auth_identity)
create_keytab_file(principal, path, auth_identity, w, env) ==
  IF (principal # None) /\ (Len(principal) > 0)
    THEN KeytabFileOutcome(
           principal, path,
           invoke_kadmin(
             <<"ktadd", " ">>
               \o (IF (path # None) /\ (Len(path) > 0)
                     THEN <<"-k", " ">> \o path ELSE <<>>)
               \o <<" ">>
               \o (IF (auth_identity = NoIdentity) \/ (Cardinality(auth_identity.keys) = 0)
                     THEN <<"-norandkey">> ELSE <<>>)
               \o <<" ">> \o principal,
             auth_identity, None, w, env))
    ELSE Return(w, RBool(FALSE))

\* create_keytab, lines 207-209: the body of the try.
CreateKeytabBody(temp_path, r) ==
  IF r.raised THEN r
  ELSE IF r.ret.b
    THEN IF isfile(r.w, temp_path)
           THEN Return(r.w, RStr(b64encode(r.w.fs[temp_path].content)))
           ELSE Raise(r.w, "IOError", <<"No such file or directory: ">> \o temp_path)
  ELSE Return(r.w, RNone)

\* create_keytab without the finally clause.
CreateKeytabNoFinally(temp_path, body) == body

\* create_keytab, lines 210-212: the finally clause.
CreateKeytabFinally(temp_path, body) ==
  IF isfile(body.w, temp_path)
    THEN [body EXCEPT !.w = RemoveFile(body.w, temp_path)]
    ELSE body

\* create_keytab, lines 204-214, with the temporary file m of line 203.
CreateKeytabAt(principal, auth_identity, m, env) ==
  CreateKeytabFinally(
    m.path,
    CreateKeytabBody(m.path,
                     create_keytab_file(principal, m.path, auth_identity,
                                        RemoveFile(m.w, m.path), env)))

\* KerberosScript.create_keytab(principal, auth_identity)
create_keytab(principal, auth_identity, w, env) ==
  CreateKeytabAt(principal, auth_identity, mkstemp(w, env), env)

\* principal_exists, lines 224-231: the outcome given invoke_kadmin's.
PrincipalExistsOutcome(principal, r) ==
  IF r.raised
    THEN Raise(r.w, "Fail",
               <<"Failed to determine if principal exists: ">> \o principal)
    ELSE Return(r.w, RBool((r.ret.out # None)
                           /\ Contains(r.ret.out, <<"Principal:", " ">> \o principal)))

\* KerberosScript.principal_exists(identity, auth_identity)
principal_exists(identity, auth_identity, w, env) ==
  IF identity # NoIdentity
       /\ (get_property_value(identity, "principal") # None)
       /\ (Len(get_property_value(identity, "principal")) > 0)
    THEN PrincipalExistsOutcome(
           get_property_value(identity, "principal"),
           invoke_kadmin(<<"getprinc", " ">> \o get_property_value(identity, "principal"),
                         auth_identity, None, w, env))
    ELSE Return(w, RBool(FALSE))

\* lines 243-246 and 269-272: -randkey, or -pw "<password>"
Credentials(password) ==
  IF password = None THEN <<"-randkey">>
  ELSE <<"-pw", " ", "\"">> \o password \o <<"\"">>

\* change_principal_password, lines 248-257: the outcome given invoke_kadmin's.
ChangePasswordOutcome(principal, r) ==
  IF r.raised
    THEN Raise(r.w, "Fail", <<"Failed to create principal: ">> \o principal)
    ELSE Return(r.w, RBool(r.ret.code = 0))

\* KerberosScript.change_principal_password(identity, auth_identity)
change_principal_password(identity, auth_identity, w, env) ==
  IF identity # NoIdentity
       /\ (get_property_value(identity, "principal") # None)
       /\ (Len(get_property_value(identity, "principal")) > 0)
    THEN ChangePasswordOutcome(
           get_property_value(identity, "principal"),
           invoke_kadmin(<<"change_password", " ">>
                           \o Credentials(get_property_value(identity, "password"))
                           \o <<" ">> \o get_property_value(identity, "principal"),
                         auth_identity, None, w, env))
    ELSE Return(w, RBool(FALSE))

\* create_principal, lines 274-283: the outcome given invoke_kadmin's.
CreatePrincipalOutcome(principal, r) ==
  IF r.raised
    THEN Raise(r.w, "Fail", <<"Failed to create principal: ">> \o principal)
    ELSE Return(r.w, RBool(r.ret.code = 0))

\* KerberosScript.create_principal(identity, auth_identity)
create_principal(identity, auth_identity, w, env) ==
  IF identity # NoIdentity
       /\ (get_property_value(identity, "principal") # None)
       /\ (Len(get_property_value(identity, "principal")) > 0)
    THEN CreatePrincipalOutcome(
           get_property_value(identity, "principal"),
           invoke_kadmin(<<"addprinc", " ">>
                           \o Credentials(get_property_value(identity, "password"))
                           \o <<" ">> \o get_property_value(identity, "principal"),
                         auth_identity, None, w, env))
    ELSE Return(w, RBool(FALSE))

RECURSIVE create_principals(_, _, _, _)
\* KerberosScript.create_principals(identities, auth_identity): the
\* principals are created in order, and an exception ends the loop.
create_principals(identities, auth_identity, w, env) ==
  LET r == create_principal(Head(identities), auth_identity, w, env)
  IN IF identities = NoParams \/ identities = <<>> THEN Return(w, RNone)
     ELSE IF r.raised THEN r
     ELSE create_principals(Tail(identities), auth_identity, r.w, env)

\* A statement whose value is dropped: the method goes on to return None.
Discard(r) == IF r.raised THEN r ELSE Return(r.w, RNone)

\* create_or_update_administrator_identity creating whatever principal_exists
\* answered.
AlwaysCreate(admin_identity, e, env) ==
  IF e.raised THEN e
  ELSE Discard(create_principal(admin_identity, NoIdentity, e.w, env))

\* create_or_update_administrator_identity, lines 298-301, given the outcome
\* e of principal_exists.
UpdateOrCreate(admin_identity, e, env) ==
  IF e.raised THEN e
  ELSE IF e.ret.b
    THEN Discard(change_principal_password(admin_identity, NoIdentity, e.w, env))
    ELSE Discard(create_principal(admin_identity, NoIdentity, e.w, env))

\* KerberosScript.create_or_update_administrator_identity(), with params.realm
\* (None, or a dict whose admin_identity may be None)
create_or_update_administrator_identity(realm, w, env) ==
  IF realm # NoIdentity
    THEN UpdateOrCreate(realm.admin_identity,
                        principal_exists(realm.admin_identity, NoIdentity, w, env),
                        env)
    ELSE Return(w, RNone)

\* test_kinit returning after kinit, kdestroy forgotten.
NoKdestroy(x, env) == x

\* test_kinit: `return shell.checked_call('kdestroy')` after the kinit x.
ThenKdestroy(x, env) ==
  IF x.raised THEN x ELSE checked_call(<<"kdestroy">>, x.w, env)

\* test_kinit, lines 314-316 and 326-328: kinit with a keytab file, kdestroy.
KinitWithKeytab(file, principal, w, env) ==
  ThenKdestroy(Execute(<<"kinit", " ", "-k", " ", "-t", " ">> \o file \o <<" ">>
                         \o principal, w, env),
               env)

\* test_kinit, lines 331-333: the finally clause.
KinitFinally(test_keytab_file, r) ==
  IF test_keytab_file # None
    THEN [r EXCEPT !.w = RemoveFile(r.w, test_keytab_file)]
    ELSE r

\* test_kinit, lines 321-333: the keytab decoded into the temporary file m.
KinitStaged(principal, m, d, env) ==
  IF ~d.ok THEN Raise(m.w, "TypeError", <<"Incorrect padding">>)
  ELSE KinitFinally(m.path,
                    KinitWithKeytab(m.path, principal,
                                    WriteFile(m.w, m.path, d.data), env))

\* test_kinit, lines 339-343: after the kinit p that read the password.
KinitPasswordOutcome(p, env) ==
  IF p.code # 0
    THEN Raise(p.w, "Fail",
               filter_text_in(<<"Execution of kinit returned ", ToString(p.code), ". ">>
                                \o Fmt(None),
                              env.registry, env.order, env.keys))
    ELSE checked_call(<<"kdestroy">>, p.w, env)

\* test_kinit without the os.path.isfile check of line 313.
test_kinit_unchecked_file(identity, w, env) ==
  LET principal == get_property_value(identity, "principal")
      keytab_file == get_property_value(identity, "keytab_file")
      keytab == get_property_value(identity, "keytab")
      password == get_property_value(identity, "password")
  IN IF principal # None
       THEN IF keytab_file # None
              THEN KinitWithKeytab(keytab_file, principal, w, env)
            ELSE IF keytab # None
              THEN KinitStaged(principal, mkstemp(w, env), b64decode(keytab), env)
            ELSE IF password # None
              THEN KinitPasswordOutcome(
                     RunProcess(<<"kinit", " ">> \o principal, "Popen", password, w, env),
                     env)
            ELSE Return(w, RPair(0, <<>>))
       ELSE Return(w, RPair(0, <<>>))

\* test_kinit trying the password before the base64 keytab.
test_kinit_password_first(identity, w, env) ==
  LET principal == get_property_value(identity, "principal")
      keytab_file == get_property_value(identity, "keytab_file")
      keytab == get_property_value(identity, "keytab")
      password == get_property_value(identity, "password")
  IN IF principal # None
       THEN IF (keytab_file # None) /\ isfile(w, keytab_file)
              THEN KinitWithKeytab(keytab_file, principal, w, env)
            ELSE IF password # None
              THEN KinitPasswordOutcome(
                     RunProcess(<<"kinit", " ">> \o principal, "Popen", password, w, env),
                     env)
            ELSE IF keytab # None
              THEN KinitStaged(principal, mkstemp(w, env), b64decode(keytab), env)
            ELSE Return(w, RPair(0, <<>>))
       ELSE Return(w, RPair(0, <<>>))

\* KerberosScript.test_kinit(identity)
test_kinit(identity, w, env) ==
  LET principal == get_property_value(identity, "principal")
      keytab_file == get_property_value(identity, "keytab_file")
      keytab == get_property_value(identity, "keytab")
      password == get_property_value(identity, "password")
  IN IF principal # None
       THEN IF (keytab_file # None) /\ isfile(w, keytab_file)
              THEN KinitWithKeytab(keytab_file, principal, w, env)
            ELSE IF keytab # None
              THEN KinitStaged(principal, mkstemp(w, env), b64decode(keytab), env)
            ELSE IF password # None
              THEN KinitPasswordOutcome(
                     RunProcess(<<"kinit", " ">> \o principal, "Popen", password, w, env),
                     env)
            ELSE Return(w, RPair(0, <<>>))
       ELSE Return(w, RPair(0, <<>>))

(***************************************************************************)
(* Keytab files on disk                                                    *)
(***************************************************************************)
S_IREAD == 256  \* 0400
S_IWRITE == 128 \* 0200
S_IRGRP == 32   \* 0040
S_IWGRP == 16   \* 0020

\* os.geteuid(), os.getegid(): the agent runs as root.
EffectiveUid == 0
EffectiveGid == 0

\* The password and group databases.
PasswdDb == (<<"root">> :> 0) @@ (<<"hdfs">> :> 1001)
GroupDb == (<<"root">> :> 0) @@ (<<"hadoop">> :> 1002)

\* KerberosScript._set_file_access(file_path, owner, owner_access, group, group_access)
_set_file_access(file_path, owner, owner_access, group, group_access, w) ==
  IF (file_path # None) /\ isfile(w, file_path) /\ (owner # None)
    THEN
      IF (Len(owner) > 0) /\ owner \notin DOMAIN PasswdDb
        THEN Raise(w, "KeyError", <<"getpwnam(): name not found: ">> \o owner)
      ELSE IF (group # None) /\ (Len(group) > 0) /\ group \notin DOMAIN GroupDb
        THEN Raise(w, "KeyError", <<"getgrnam(): name not found: ">> \o group)
      ELSE Return(
             [w EXCEPT
                !.fs[namei(file_path, w).path].mode =
                    (IF owner_access = <<"r">> THEN S_IREAD ELSE S_IREAD + S_IWRITE)
                    + (IF group_access = <<"r", "w">> THEN S_IRGRP + S_IWGRP
                       ELSE IF group_access = <<"r">> THEN S_IRGRP ELSE 0),
                !.fs[namei(file_path, w).path].uid =
                    IF Len(owner) > 0 THEN PasswdDb[owner] ELSE EffectiveUid,
                !.fs[namei(file_path, w).path].gid =
                    IF (group # None) /\ (Len(group) > 0)
                      THEN GroupDb[group] ELSE EffectiveGid],
             RNone)
    ELSE Return(w, RNone)

RECURSIVE BitAnd(_, _)
\* a & b
BitAnd(a, b) ==
  IF a = 0 \/ b = 0 THEN 0
  ELSE (a % 2) * (b % 2) + 2 * BitAnd(a \div 2, b \div 2)

\* The permission bits open() asks for, and all of them (os.makedirs'
\* default mode).
OpenMode == 438 \* 0666
AllModeBits == 511 \* 0777

\* os.mkdir(name, mode): the name is resolved, and must be free; the
\* directory gets mode & ~umask and the effective user and group.
mkdir(name, mode, w) ==
  IF namei(name, w).err # ""
    THEN Raise(w, "OSError", <<namei(name, w).err>> \o name)
  ELSE IF namei(name, w).kind # "none"
    THEN Raise(w, "OSError", <<"File exists: ">> \o name)
    ELSE Return([w EXCEPT !.dirs =
                   [q \in DOMAIN w.dirs \cup {namei(name, w).path} |->
                      IF q = namei(name, w).path
                        THEN [mode |-> BitAnd(mode, AllModeBits - w.umask),
                              uid |-> EffectiveUid, gid |-> EffectiveGid]
                        ELSE w.dirs[q]]],
                RNone)

RECURSIVE makedirs(_, _, _)
\* os.makedirs(name, mode): makes the missing directories above name (an
\* error other than EEXIST is raised again), then name itself.
makedirs(name, mode, w) ==
  LET head == IF path_tail(name) = <<>> THEN path_head(path_head(name))
              ELSE path_head(name)
      tail == IF path_tail(name) = <<>> THEN path_tail(path_head(name))
              ELSE path_tail(name)
      r == makedirs(head, mode, w)
  IN IF head # <<>> /\ tail # <<>> /\ ~exists(w, head)
       THEN IF r.raised /\ Head(r.msg) # "File exists: " THEN r
            ELSE IF tail = <<".">> THEN Return(r.w, RNone)
            ELSE mkdir(name, mode, r.w)
       ELSE mkdir(name, mode, w)

\* open(path, 'w') on the resolved path: truncates the file, or creates it
\* with mode 0666 & ~umask, owned by the effective user and group.
Truncated(w, path) ==
  IF path \in DOMAIN w.fs THEN [w EXCEPT !.fs[path].content = <<>>]
  ELSE [w EXCEPT !.fs =
          [q \in DOMAIN w.fs \cup {path} |->
             IF q = path
               THEN [content |-> <<>>,
                     mode |-> BitAnd(OpenMode, AllModeBits - w.umask),
                     uid |-> EffectiveUid, gid |-> EffectiveGid]
               ELSE w.fs[q]]]

\* open(path, mode) for writing fails with this error, or with none ("").
OpenError(path, w) ==
  IF namei(path, w).err # "" THEN namei(path, w).err
  ELSE IF namei(path, w).slash \/ namei(path, w).kind = "dir"
    THEN "Is a directory: "
    ELSE ""

\* The file opened with mode 'a': what it held is kept.
open_append(path, d, w) ==
  LET file == namei(path, w).path
  IN IF OpenError(path, w) # ""
       THEN Raise(w, "IOError", <<OpenError(path, w)>> \o path)
     ELSE IF ~d.ok
       THEN Raise(IF file \in DOMAIN w.fs THEN w ELSE Truncated(w, file),
                  "TypeError", <<"Incorrect padding">>)
     ELSE IF file \in DOMAIN w.fs
       THEN Return(WriteFile(w, file, w.fs[file].content \o d.data), RNone)
     ELSE Return(WriteFile(Truncated(w, file), file, d.data), RNone)

\* with open(path, 'w') as f: f.write(base64.b64decode(...)) -- the file is
\* opened before the data is decoded.
open_write(path, d, w) ==
  LET file == namei(path, w).path
  IN IF OpenError(path, w) # ""
       THEN Raise(w, "IOError", <<OpenError(path, w)>> \o path)
     ELSE IF ~d.ok
       THEN Raise(Truncated(w, file), "TypeError", <<"Incorrect padding">>)
     ELSE Return(WriteFile(Truncated(w, file), file, d.data), RNone)

\* write_keytab_file, lines 365-369, after the file was written.
KeytabAccess(item, f) ==
  IF f.raised THEN f
  ELSE _set_file_access(item.keytab_file_path, item.keytab_file_owner,
                        item.keytab_file_owner_access, item.keytab_file_group,
                        item.keytab_file_group_access, f.w)

\* write_keytab_file, lines 363-369, after the parent directories were made.
KeytabWrite(item, d) ==
  IF d.raised THEN d
  ELSE KeytabAccess(item,
                    open_write(item.keytab_file_path,
                               b64decode(item.keytab_content_base64), d.w))

\* write_keytab_file, lines 356-369: the body of the loop for one item.
write_one_keytab(item, w) ==
  IF (item.keytab_content_base64 # None) /\ (Len(item.keytab_content_base64) > 0)
       /\ (item.keytab_file_path # None) /\ (Len(item.keytab_file_path) > 0)
    THEN KeytabWrite(item,
                     IF path_head(item.keytab_file_path) # <<>>
                          /\ ~isdir(w, path_head(item.keytab_file_path))
                       THEN makedirs(path_head(item.keytab_file_path), AllModeBits, w)
                       ELSE Return(w, RNone))
    ELSE Return(w, RNone)

RECURSIVE write_keytab_file(_, _)
\* KerberosScript.write_keytab_file(), with params.kerberos_command_params:
\* the items are written in order, and an exception ends the loop.
write_keytab_file(kerberos_command_params, w) ==
  LET r == write_one_keytab(Head(kerberos_command_params), w)
  IN IF kerberos_command_params = NoParams \/ kerberos_command_params = <<>>
       THEN Return(w, RNone)
     ELSE IF r.raised THEN r
     ELSE write_keytab_file(Tail(kerberos_command_params), r.w)

(***************************************************************************)
(* krb5.conf: the section writers and write_krb5_conf.  A dict is given as *)
(* [items |-> the sequence of <<key, value>> pairs its iteritems() yields],*)
(* and NoData when it is None.  An output_file is a file object the caller *)
(* holds open for appending, named by the path of its file; what is        *)
(* written to it is buffered until the caller flushes or closes it.        *)
(***************************************************************************)
\* section_data, realm_data or realms_data that is None
NoData == [none |-> TRUE]

\* KerberosScript.KRB5_REALM_PROPERTIES
KRB5_REALM_PROPERTIES ==
  {<<"kdc">>, <<"admin_server">>, <<"default_domain">>, <<"master_kdc">>}

\* output_file.write(text)
write(output_file, text, w) ==
  [w EXCEPT !.output_files[output_file] = @ \o text]

RECURSIVE WriteProperties(_, _, _)
\* for key, value in section_data.iteritems(): write " %s = %s\n"
WriteProperties(output_file, items, w) ==
  IF items = <<>> THEN w
  ELSE WriteProperties(output_file, Tail(items),
         write(output_file,
               <<" ">> \o Fmt(Head(items)[1]) \o <<" ", "=", " ">>
                 \o Fmt(Head(items)[2]) \o <<"\n">>,
               w))

\* KerberosScript.write_conf_section(output_file, section_name, section_data)
write_conf_section(output_file, section_name, section_data, w) ==
  IF section_name = None THEN w
  ELSE IF section_data = NoData
    THEN write(output_file, <<"[">> \o section_name \o <<"]", "\n">>, w)
    ELSE WriteProperties(output_file, section_data.items,
           write(output_file, <<"[">> \o section_name \o <<"]", "\n">>, w))

RECURSIVE WriteRealmProperties(_, _, _)
\* for key, value in realm_data.iteritems(): the allow-listed ones are
\* written as "  %s = %s\n"
WriteRealmProperties(output_file, items, w) ==
  IF items = <<>> THEN w
  ELSE WriteRealmProperties(output_file, Tail(items),
         IF Head(items)[1] \in KRB5_REALM_PROPERTIES
           THEN write(output_file,
                      <<" ", " ">> \o Fmt(Head(items)[1]) \o <<" ", "=", " ">>
                        \o Fmt(Head(items)[2]) \o <<"\n">>,
                      w)
           ELSE w)

\* KerberosScript._write_conf_realm(output_file, realm_name, realm_data)
_write_conf_realm(output_file, realm_name, realm_data, w) ==
  IF realm_name = None THEN w
  ELSE write(output_file, <<" ", "}", "\n">>,
         IF realm_data = NoData
           THEN write(output_file, <<" ">> \o realm_name \o <<" ", "=", " ", "{", "\n">>, w)
           ELSE WriteRealmProperties(output_file, realm_data.items,
                  write(output_file,
                        <<" ">> \o realm_name \o <<" ", "=", " ", "{", "\n">>, w)))

RECURSIVE WriteRealms(_, _, _)
\* for realm, realm_data in realms_data.iteritems(): the realm, then "\n"
WriteRealms(output_file, items, w) ==
  IF items = <<>> THEN w
  ELSE WriteRealms(output_file, Tail(items),
         write(output_file, <<"\n">>,
               _write_conf_realm(output_file, Head(items)[1], Head(items)[2], w)))

\* KerberosScript.write_conf_realms_section(output_file, section_name,
\* realms_data)
write_conf_realms_section(output_file, section_name, realms_data, w) ==
  IF section_name = None THEN w
  ELSE IF realms_data = NoData
    THEN write(output_file, <<"[">> \o section_name \o <<"]", "\n">>, w)
    ELSE WriteRealms(output_file, realms_data.items,
           write(output_file, <<"[">> \o section_name \o <<"]", "\n">>, w))

\* Modes of the krb5.conf directory (0755) and file (0644).
DirectoryMode == 493
FileMode == 420

\* Directory(path, owner='root', recursive=True, group='root', mode=0755):
\* the directory is made with what is missing above it, and is given the
\* owner, group and mode; a file in the way fails the resource.
Directory(path, w) ==
  LET made == IF isdir(w, path) THEN Return(w, RNone)
              ELSE makedirs(path, DirectoryMode, w)
  IN IF isfile(w, path)
       THEN Raise(w, "Fail", <<"Applying Directory failed, file exists: ">> \o path)
     ELSE IF made.raised THEN made
     ELSE Return([made.w EXCEPT !.dirs[namei(path, made.w).path] =
                    [mode |-> DirectoryMode, uid |-> PasswdDb[<<"root">>],
                     gid |-> GroupDb[<<"root">>]]],
                 RNone)

\* str.strip() leaves nothing: the text is made of space, \t, \n, \r, \f
\* and the vertical tab (written "\\v" here).
IsBlank(text) ==
  \A i \in 1..Len(text) : text[i] \in {" ", "\n", "\t", "\r", "\f", "\\v"}

\* The text of the bundled template krb5_conf.j2, and the Jinja expression
\* for the realm.
Krb5ConfJ2 ==
  <<"[", "libdefaults", "]", "\n", " ", "default_realm", " ", "=", " ",
    "{{realm}}", "\n">>
\* Template('krb5_conf.j2') and InlineTemplate(text), rendered with params.
Template(realm) == Replace(Krb5ConfJ2, <<"{{realm}}">>, realm)
InlineTemplate(text, realm) == Replace(text, <<"{{realm}}">>, realm)

\* File(path, content=content, owner='root', group='root', mode=0644): the
\* file holds content and gets the owner, group and mode; it fails on a
\* directory at path and on a missing parent directory.
File(path, content, w) ==
  IF isdir(w, path)
    THEN Raise(w, "Fail", <<"Applying File failed, directory exists: ">> \o path)
  ELSE IF ~isdir(w, path_head(path))
    THEN Raise(w, "Fail",
               <<"Applying File failed, parent directory does not exist: ">> \o path)
    ELSE Return([w EXCEPT !.fs =
                   [q \in DOMAIN w.fs \cup {namei(path, w).path} |->
                      IF q = namei(path, w).path
                        THEN [content |-> content, mode |-> FileMode,
                              uid |-> PasswdDb[<<"root">>],
                              gid |-> GroupDb[<<"root">>]]
                        ELSE w.fs[q]]],
                RNone)

\* KerberosScript.write_krb5_conf(), with the params module
write_krb5_conf(params, w) ==
  LET d == Directory(params.krb5_conf_dir, w)
  IN IF d.raised THEN d
     ELSE File(params.krb5_conf_path,
               IF params.krb5_conf_template = None
                    \/ IsBlank(params.krb5_conf_template)
                 THEN Template(params.realm)
                 ELSE InlineTemplate(params.krb5_conf_template, params.realm),
               d.w)

(***************************************************************************)
(* The state machine.  A KerberosScript method is called by the command    *)
(* script when no call is in progress (call.op = "idle"); it runs to       *)
(* completion in one step and leaves its outcome in call, and the caller   *)
(* then takes the outcome.                                                 *)
(***************************************************************************)
Idle == [op |-> "idle"]

\* The process's file mode creation mask, as a login shell sets it (022).
DefaultUmask == 18

World ==
  [fs |-> fs, dirs |-> dirs, kdc |-> kdc, output_files |-> output_files,
   temps |-> <<>>, cmds |-> <<>>, umask |-> DefaultUmask]

\* The world of a process whose mask is umask.
WorldUnder(umask) == [World EXCEPT !.umask = umask]

\* The environment of a call that runs at most n subprocesses and chooses
\* among m temporary names: the exit codes (0 or 1), the names, the key the KDC draws
\* (from keys), and the iteration orders of the two dicts filter_text walks.
Envs(n, m, keys) ==
  {[codes |-> c, names |-> t, randkey |-> k, registry |-> sensitive_strings,
    order |-> o, keys |-> ph] :
     c \in [1..n -> {0, 1}], t \in [1..m -> TempNames], k \in keys,
     o \in Orders(DOMAIN sensitive_strings), ph \in Orders(PLACEHOLDERS_TO_STR)}

\* The call ends with outcome r.
Finish(op, args, r) ==
  /\ fs' = r.w.fs
  /\ dirs' = r.w.dirs
  /\ output_files' = r.w.output_files
  /\ kdc' = r.w.kdc
  /\ call' = [op |-> op, args |-> args, raised |-> r.raised, exc |-> r.exc,
              msg |-> r.msg, ret |-> r.ret, cmds |-> r.w.cmds,
              temps |-> r.w.temps, fs0 |-> fs, kdc0 |-> kdc]
  /\ UNCHANGED <<sensitive_strings, sink>>

\* The caller takes the outcome of the finished call.
ReturnToCaller ==
  /\ call # Idle
  /\ call' = Idle
  /\ UNCHANGED <<sensitive_strings, sink, fs, dirs, kdc, output_files>>

(***************************************************************************)
(* Logger actions                                                          *)
(***************************************************************************)
\* Longest text logged, and most messages the sink holds.
MaxText == 3
MaxSink == 1

RECURSIVE Concat(_)
\* ''.join(pieces)
Concat(pieces) ==
  IF pieces = <<>> THEN <<>> ELSE Head(pieces) \o Concat(Tail(pieces))

\* The pieces logged texts are made of: two characters, a placeholder, and
\* the two halves of the other placeholder.
\* The texts of at most MaxText pieces.
Texts ==
  {Concat(p) :
     p \in UNION {[1..n -> {<<"a">>, <<"b">>, ENV_PLACEHOLDER,
                            SubSeq(EXPORT_PLACEHOLDER, 1, 12),
                            SubSeq(EXPORT_PLACEHOLDER, 13, 24)}] :
                    n \in 0..MaxText}}

Registries ==
  UNION {[K -> {<<"[", "P", "R", "O", "T", "E", "C", "T", "E", "D", "]">>, <<"*">>}] :
           K \in SUBSET {<<"a", "b">>, <<"a">>}}

\* The sink after Logger.logger.<level>(Logger.filter_text(text))
Emitted(level, text) ==
  {Append(sink, [level |-> level, raw |-> text, text |-> out]) :
     out \in filter_text(text, sensitive_strings)}

\* Logger.error(text)
error ==
  /\ Len(sink) < MaxSink
  /\ \E text \in Texts : sink' \in Emitted("error", text)
  /\ UNCHANGED <<sensitive_strings, fs, dirs, kdc, output_files, call>>

\* Logger.warning(text)
warning ==
  /\ Len(sink) < MaxSink
  /\ \E text \in Texts : sink' \in Emitted("warning", text)
  /\ UNCHANGED <<sensitive_strings, fs, dirs, kdc, output_files, call>>

\* Logger.info(text)
info ==
  /\ Len(sink) < MaxSink
  /\ \E text \in Texts : sink' \in Emitted("info", text)
  /\ UNCHANGED <<sensitive_strings, fs, dirs, kdc, output_files, call>>

\* Logger.debug(text)
debug ==
  /\ Len(sink) < MaxSink
  /\ \E text \in Texts : sink' \in Emitted("debug", text)
  /\ UNCHANGED <<sensitive_strings, fs, dirs, kdc, output_files, call>>

\* The directories of a host before the agent acts: /, /etc and /tmp, root's.
RootDirs ==
  [q \in {<<"/">>, <<"/", "etc">>, <<"/", "tmp">>} |->
     [mode |-> IF q = <<"/", "tmp">> THEN 1023 ELSE DirectoryMode,
      uid |-> PasswdDb[<<"root">>], gid |-> GroupDb[<<"root">>]]]

InitWorld ==
  /\ dirs = RootDirs
  /\ output_files = <<>>
  /\ kdc = <<>>
  /\ call = Idle

InitLogger ==
  /\ sensitive_strings \in Registries
  /\ sink = <<>>
  /\ fs = <<>>
  /\ InitWorld

NextLogger == error \/ warning \/ info \/ debug

SpecLogger == InitLogger /\ [][NextLogger]_vars

\* C1: no text handed to the log sink contains a registered unprotected
\* string.
RedactedOutputHidesSecrets ==
  \A i \in DOMAIN sink : \A u \in DOMAIN sensitive_strings :
     ~Contains(sink[i].text, u)

(***************************************************************************)
(* KerberosScript actions                                                  *)
(***************************************************************************)
AdminPrincipal == <<"admin/admin@REALM">>

\* A keytab in base64, and one whose padding is incorrect.
GoodKeytab == <<"B", "Q", "I", "=">>
BadKeytab == <<"B", "Q", "I">>

\* Identities of the principals to manage.
Identities ==
  {NoIdentity,
   Identity(None, <<"pw">>, None, None),
   Identity(<<>>, None, None, None),
   Identity(<<"a@REALM">>, <<"pw">>, None, None),
   Identity(<<"a@REALM">>, None, None, None),
   Identity(<<"b", "\"", "c">>, <<"p", "\"", "w">>, None, None)}

\* Identities the wrappers of invoke_kadmin are called with: None, {},
\* {'principal': None}, and three with a principal.
WrapperAuthIdentities ==
  {NoIdentity,
   Identity(None, None, None, None),
   Dict(None, None, None, None, {"principal"}),
   Identity(AdminPrincipal, <<"pw">>, None, None),
   Identity(AdminPrincipal, None, GoodKeytab, None),
   Identity(AdminPrincipal, None, BadKeytab, None)}

\* Identities kadmin authenticates with (None and {} select kadmin.local).
CallInvokeKadmin ==
  /\ call = Idle /\ CanMkstemp(fs, 1)
  /\ \E query \in {None, <<>>, <<"getprinc", " ", "a@REALM">>, <<"listprincs">>},
        admin_identity \in
          {NoIdentity,
           Identity(None, None, None, None),
           Identity(AdminPrincipal, <<"pw">>, None, None),
           Identity(AdminPrincipal, <<"pw">>, GoodKeytab, None),
           Identity(AdminPrincipal, None, GoodKeytab, None),
           Identity(AdminPrincipal, None, BadKeytab, None),
           Identity(AdminPrincipal, None, None, None)},
        default_realm \in {None, <<>>, <<"REALM">>}, env \in Envs(1, 0, {None}) :
       Finish("invoke_kadmin",
              [query |-> query, admin_identity |-> admin_identity,
               default_realm |-> default_realm],
              invoke_kadmin(query, admin_identity, default_realm, World, env))

CallCreateKeytabFile ==
  /\ call = Idle /\ CanMkstemp(fs, 1)
  /\ \E principal \in Principals \cup {None, <<>>},
        path \in {None, <<>>, KeytabPath},
        auth_identity \in WrapperAuthIdentities, env \in Envs(1, 0, RandKeys) :
       Finish("create_keytab_file",
              [principal |-> principal, path |-> path,
               auth_identity |-> auth_identity],
              create_keytab_file(principal, path, auth_identity, World, env))

CallCreateKeytab ==
  /\ call = Idle /\ CanMkstemp(fs, 2)
  /\ \E principal \in Principals \cup {None, <<>>},
        auth_identity \in WrapperAuthIdentities, env \in Envs(1, 2, RandKeys) :
       Finish("create_keytab",
              [principal |-> principal, auth_identity |-> auth_identity],
              create_keytab(principal, auth_identity, World, env))

CallPrincipalExists ==
  /\ call = Idle /\ CanMkstemp(fs, 1)
  /\ \E identity \in Identities, auth_identity \in WrapperAuthIdentities, env \in Envs(1, 0, {None}) :
       Finish("principal_exists",
              [identity |-> identity, auth_identity |-> auth_identity],
              principal_exists(identity, auth_identity, World, env))

CallChangePrincipalPassword ==
  /\ call = Idle /\ CanMkstemp(fs, 1)
  /\ \E identity \in Identities, auth_identity \in WrapperAuthIdentities, env \in Envs(1, 0, RandKeys) :
       Finish("change_principal_password",
              [identity |-> identity, auth_identity |-> auth_identity],
              change_principal_password(identity, auth_identity, World, env))

CallCreatePrincipal ==
  /\ call = Idle /\ CanMkstemp(fs, 1)
  /\ \E identity \in Identities, auth_identity \in WrapperAuthIdentities, env \in Envs(1, 0, RandKeys) :
       Finish("create_principal",
              [identity |-> identity, auth_identity |-> auth_identity],
              create_principal(identity, auth_identity, World, env))

\* identities: None, or a list of at most two of three identities.
CallCreatePrincipals ==
  /\ call = Idle /\ CanMkstemp(fs, 2)
  /\ \E identities \in
          {NoParams} \cup
          UNION {[1..n -> {Identity(<<>>, None, None, None),
                           Identity(<<"a@REALM">>, <<"pw">>, None, None),
                           Identity(<<"b", "\"", "c">>, None, None, None)}] :
                   n \in 0..2},
        auth_identity \in {NoIdentity, Identity(AdminPrincipal, None, GoodKeytab, None)},
        env \in Envs(2, 0, RandKeys) :
       Finish("create_principals",
              [identities |-> identities, auth_identity |-> auth_identity],
              create_principals(identities, auth_identity, World, env))

\* params.realm: None, or a dict with its admin_identity.
CallCreateOrUpdateAdministratorIdentity ==
  /\ call = Idle
  /\ \E realm \in {NoIdentity} \cup {[admin_identity |-> i] : i \in Identities},
        env \in Envs(2, 0, RandKeys) :
       Finish("create_or_update_administrator_identity", [realm |-> realm],
              create_or_update_administrator_identity(realm, World, env))

InitKadmin ==
  /\ sensitive_strings = (<<"pw">> :> <<"[PROTECTED]">>)
  /\ sink = <<>>
  /\ fs = <<>>
  /\ InitWorld

NextKadmin ==
  \/ CallCreateKeytabFile
  \/ CallPrincipalExists
  \/ CallChangePrincipalPassword
  \/ CallCreatePrincipal
  \/ CallCreatePrincipals
  \/ CallCreateOrUpdateAdministratorIdentity
  \/ ReturnToCaller

SpecKadmin == InitKadmin /\ [][NextKadmin]_vars

\* create_keytab is called with the principal in the KDC, or not.
InitCreateKeytab ==
  /\ sensitive_strings = (<<"pw">> :> <<"[PROTECTED]">>)
  /\ sink = <<>>
  /\ fs = <<>>
  /\ dirs = RootDirs
  /\ output_files = <<>>
  /\ kdc \in {<<>>, (<<"a@REALM">> :> <<"pw">>)}
  /\ call = Idle

NextCreateKeytab == CallCreateKeytab \/ ReturnToCaller

SpecCreateKeytab == InitCreateKeytab /\ [][NextCreateKeytab]_vars

(***************************************************************************)
(* test_kinit                                                              *)
(***************************************************************************)
\* The keytab_file is missing, /etc/a.keytab, the same file spelled
\* /etc//a.keytab, or /etc/a.keytab/ (which names no regular file).
CallTestKinit ==
  /\ call = Idle /\ CanMkstemp(fs, 1)
  /\ \E identity \in {Identity(p, pw, k, f) :
                         p \in {None, <<"a@REALM">>}, pw \in {None, <<"pw">>},
                         k \in {None, GoodKeytab, BadKeytab},
                         f \in {None, KeytabPath,
                                <<"/", "etc", "/", "/", "a.keytab">>,
                                KeytabPath \o <<"/">>}},
        env \in Envs(2, 0, {None}) :
       Finish("test_kinit", [identity |-> identity],
              test_kinit(identity, World, env))

\* The sensitive strings registered while KerberosScript runs: none, a
\* password, or a string that occurs in kinit's failure message.  The keytab
\* file of the identities under test is on disk, or is not.
InitKinit ==
  /\ sensitive_strings \in {<<>>, (<<"pw">> :> <<"[PROTECTED]">>),
                            (<<"1">> :> <<"[PROTECTED]">>)}
  /\ sink = <<>>
  /\ fs \in {<<>>, PutFile(<<>>, KeytabPath, KeytabBytes)}
  /\ InitWorld

NextKinit == CallTestKinit \/ CallInvokeKadmin \/ ReturnToCaller

SpecKinit == InitKinit /\ [][NextKinit]_vars

(***************************************************************************)
(* write_keytab_file and _set_file_access                                  *)
(***************************************************************************)
\* Most keytab specs in params.kerberos_command_params.
MaxSpecs == 2

NestedKeytabPath == <<"/", "etc", "/", "krb", "/", "b.keytab">>

KeytabSpec(content, path, owner, owner_access, group, group_access) ==
  [keytab_content_base64 |-> content, keytab_file_path |-> path,
   keytab_file_owner |-> owner, keytab_file_owner_access |-> owner_access,
   keytab_file_group |-> group, keytab_file_group_access |-> group_access]

\* Keytab specs: two for one path, one whose base64 is not what an encoder
\* writes ("QR=="), one with incorrect padding ("QQ="), one without content,
\* one without a path, one owned by an unknown user, one below the path of
\* another, one for the file of the first under another spelling.
KeytabParams ==
  {NoParams} \cup
  UNION {[1..n ->
        {KeytabSpec(<<"Q", "Q", "=", "=">>, KeytabPath, <<"root">>, <<"r">>, None, None),
         KeytabSpec(<<"Q", "U", "I", "=">>, KeytabPath, <<"hdfs">>, <<"r", "w">>,
         <<"hadoop">>, <<"r">>),
         KeytabSpec(<<"Q", "R", "=", "=">>, NestedKeytabPath, None, None, None, None),
         KeytabSpec(<<"Q", "Q", "=">>, NestedKeytabPath, <<"root">>, <<"r">>, None, None),
         KeytabSpec(<<>>, KeytabPath, <<"root">>, <<"r">>, None, None),
         KeytabSpec(<<"Q", "U", "J", "D">>, None, <<"root">>, <<"r">>, None, None),
         KeytabSpec(<<"Q", "U", "J", "D">>, KeytabPath, <<"nobody">>, <<"r">>, None, None),
         KeytabSpec(<<"Q", "Q", "=", "=">>, KeytabPath \o <<"/", "x">>, None, None, None, None),
         KeytabSpec(<<"Q", "U", "I", "=">>, <<"/", "etc", "/", "/", "a.keytab">>,
                    <<"root">>, <<"r">>, None, None)}] :
           n \in 0..MaxSpecs}

CallWriteKeytabFile ==
  /\ call = Idle
  /\ \E kerberos_command_params \in KeytabParams, umask \in {DefaultUmask, 63} :
       Finish("write_keytab_file",
              [kerberos_command_params |-> kerberos_command_params, umask |-> umask],
              write_keytab_file(kerberos_command_params, WorldUnder(umask)))

\* Owner, owner access, group and group access _set_file_access is given.
CallSetFileAccess ==
  /\ call = Idle
  /\ \E file_path \in {None, KeytabPath, NestedKeytabPath,
                        <<"/", "etc", "/", ".", "/", "a.keytab">>},
        a \in {<<None, <<"r">>, <<"hadoop">>, <<"r">>>>,
               <<<<>>, <<"r", "w">>, None, None>>,
               <<<<"hdfs">>, <<"r">>, <<"hadoop">>, <<"r", "w">>>>,
               <<<<"hdfs">>, None, <<>>, <<"r">>>>,
               <<<<"nobody">>, <<"r">>, None, None>>,
               <<<<"root">>, <<"r", "w">>, <<"nogroup">>, <<"r">>>>} :
       Finish("_set_file_access",
              [file_path |-> file_path, owner |-> a[1], owner_access |-> a[2],
               group |-> a[3], group_access |-> a[4]],
              _set_file_access(file_path, a[1], a[2], a[3], a[4], World))

InitKeytab ==
  /\ sensitive_strings = <<>>
  /\ sink = <<>>
  /\ fs = <<>>
  /\ InitWorld

NextKeytab == CallWriteKeytabFile \/ CallSetFileAccess \/ ReturnToCaller

SpecKeytab == InitKeytab /\ [][NextKeytab]_vars

(***************************************************************************)
(* The krb5.conf writers                                                   *)
(***************************************************************************)
\* Longest krb5.conf a section is added to.
MaxConf == 4

ConfPath == <<"/", "etc", "/", "krb5.conf">>
\* The dict d in the orders iteritems() may yield its pairs.
Items(d) ==
  {[items |-> [i \in 1..Len(o) |-> <<o[i], d[o[i]]>>]] : o \in Orders(DOMAIN d)}

\* Realm data: None, empty, with a property off the allow-list, with one on.
RealmData ==
  {NoData} \cup Items(<<>>)
  \cup Items((<<"kdc">> :> <<"k.example.com">>) @@ (<<"bogus">> :> <<"x">>))
  \cup Items((<<"admin_server">> :> <<"a.example.com">>))

\* params: the directory and path agree, or the path lies elsewhere, or the
\* directory is where the file is or below it; the template is missing,
\* blank, or given inline with and without the realm's expression.
CallWriteKrb5Conf ==
  /\ call = Idle
  /\ \E d \in {<<"/", "etc">>, <<"/", "etc", "/", "krb5", "/", "conf.d">>,
               ConfPath, ConfPath \o <<"/", "d", "/", "e">>},
        p \in {ConfPath,
               <<"/", "etc", "/", "krb5", "/", "conf.d", "/", "krb5.conf">>,
               <<"/", "etc">>},
        t \in {None, <<" ", "\f", "\n">>, <<"x", "\n">>, <<"realm", "=", "{{realm}}">>},
        umask \in {DefaultUmask, 63} :
       Finish("write_krb5_conf",
              [params |-> [krb5_conf_dir |-> d, krb5_conf_path |-> p,
                           krb5_conf_template |-> t, realm |-> <<"EXAMPLE.COM">>],
               umask |-> umask],
              write_krb5_conf([krb5_conf_dir |-> d, krb5_conf_path |-> p,
                               krb5_conf_template |-> t,
                               realm |-> <<"EXAMPLE.COM">>],
                              WorldUnder(umask)))

CallWriteConfSection ==
  /\ call = Idle
  /\ \E output_file \in DOMAIN output_files,
        section_name \in {None, <<"libdefaults">>},
        section_data \in
          {NoData} \cup Items(<<>>)
          \cup Items((<<"default_realm">> :> None))
          \cup Items((<<"default_realm">> :> <<"REALM">>)
                     @@ (<<"ticket_lifetime">> :> <<"24h">>)) :
       /\ Len(fs[output_file].content) + Len(output_files[output_file]) < MaxConf
       /\ Finish("write_conf_section",
                 [output_file |-> output_file, section_name |-> section_name,
                  section_data |-> section_data],
                 Return(write_conf_section(output_file, section_name,
                                           section_data, World), RNone))

CallWriteConfRealm ==
  /\ call = Idle
  /\ \E output_file \in DOMAIN output_files,
        realm_name \in {None, <<"EXAMPLE.COM">>}, realm_data \in RealmData :
       /\ Len(fs[output_file].content) + Len(output_files[output_file]) < MaxConf
       /\ Finish("_write_conf_realm",
                 [output_file |-> output_file, realm_name |-> realm_name,
                  realm_data |-> realm_data],
                 Return(_write_conf_realm(output_file, realm_name, realm_data,
                                          World), RNone))

\* Realms data: None, empty, one realm, a realm whose name is None, and two
\* realms in both orders.
CallWriteConfRealmsSection ==
  /\ call = Idle
  /\ \E output_file \in DOMAIN output_files,
        section_name \in {None, <<"realms">>},
        realms_data \in
          {NoData} \cup Items(<<>>)
          \cup UNION {Items((n :> r)) :
                        n \in {None, <<"EXAMPLE.COM">>}, r \in RealmData}
          \cup Items((<<"EXAMPLE.COM">> :> [items |-> <<<<<<"kdc">>, <<"k">>>>>>])
                     @@ (<<"B.ORG">> :> NoData)) :
       /\ Len(fs[output_file].content) + Len(output_files[output_file]) < MaxConf
       /\ Finish("write_conf_realms_section",
                 [output_file |-> output_file, section_name |-> section_name,
                  realms_data |-> realms_data],
                 Return(write_conf_realms_section(output_file, section_name,
                                                  realms_data, World), RNone))

\* The caller's open(path, 'a'): the file is made if it is missing, and what
\* is written to the file object goes to the end of the file.
OpenOutputFile ==
  /\ call = Idle
  /\ \E path \in {ConfPath, <<"/", "etc", "/", ".", "/", "krb5.conf">>} :
       /\ OpenError(path, World) = ""
       /\ namei(path, World).path \notin DOMAIN output_files
       /\ fs' = IF namei(path, World).path \in DOMAIN fs THEN fs
                ELSE Truncated(World, namei(path, World).path).fs
       /\ output_files' =
            [q \in DOMAIN output_files \cup {namei(path, World).path} |->
               IF q \in DOMAIN output_files THEN output_files[q] ELSE <<>>]
  /\ UNCHANGED <<sensitive_strings, sink, dirs, kdc, call>>

\* The caller's output_file.close(): the buffered text reaches the file.
CloseOutputFile ==
  /\ call = Idle
  /\ \E output_file \in DOMAIN output_files :
       /\ fs' = [fs EXCEPT ![output_file].content = @ \o output_files[output_file]]
       /\ output_files' =
            [q \in DOMAIN output_files \ {output_file} |-> output_files[q]]
  /\ UNCHANGED <<sensitive_strings, sink, dirs, kdc, call>>

NextConf ==
  \/ OpenOutputFile
  \/ CloseOutputFile
  \/ CallWriteKrb5Conf
  \/ CallWriteConfSection
  \/ CallWriteConfRealm
  \/ CallWriteConfRealmsSection
  \/ ReturnToCaller

SpecConf == InitKeytab /\ [][NextConf]_vars

(***************************************************************************)
(* Properties                                                              *)
(***************************************************************************)
\* C2: when invoke_kadmin or test_kinit exits, on any path, no temporary
\* keytab file it created is left on disk.
StagedKeytabsRemoved ==
  call.op \in {"invoke_kadmin", "test_kinit"} =>
    \A i \in DOMAIN call.temps : call.temps[i] \notin DOMAIN fs

\* C3: after create_keytab exits -- create_keytab_file having returned true,
\* returned false, or raised -- the temporary path it allocated is no file.
CreateKeytabRemovesTemp ==
  call.op = "create_keytab" =>
    /\ call.temps # <<>>
    /\ call.temps[1] \notin DOMAIN fs
    /\ (call.raised \/ call.ret.kind \in {"str", "None"})

\* create_keytab returned the keytab ktadd wrote to the temporary path.
CreateKeytabReadKeytab ==
  /\ call.op = "create_keytab"
  /\ ~call.raised
  /\ call.ret = RStr(b64encode(KeytabBytes))
  /\ \E i \in DOMAIN call.cmds :
       /\ call.cmds[i].code = 0
       /\ Contains(call.cmds[i].cmd, <<"ktadd", " ", "-k", " ">> \o call.temps[1])

\* The command lines test_kinit runs.
KinitKeytabCommand(file, principal) ==
  <<"kinit", " ", "-k", " ", "-t", " ">> \o file \o <<" ">> \o principal

KinitPasswordCommand(principal) == <<"kinit", " ">> \o principal

\* The keytab_file of the identity of the finished test_kinit call was set
\* and named a regular file, under whatever spelling, when the call began.
KeytabFileUsable ==
  /\ call.args.identity.keytab_file # None
  /\ isfile([fs |-> call.fs0, dirs |-> dirs], call.args.identity.keytab_file)

\* C4: test_kinit with a principal uses exactly one credential form, in the
\* order keytab_file that exists on disk, base64 keytab staged in a temporary
\* file, password on kinit's stdin; with none of them it runs no subprocess
\* and returns (0, '').
KinitCredentialPriority ==
  (call.op = "test_kinit" /\ call.args.identity.principal # None) =>
    LET id == call.args.identity
        first == call.cmds[1]
    IN /\ Cardinality({i \in DOMAIN call.cmds : Head(call.cmds[i].cmd) = "kinit"}) <= 1
       /\ KeytabFileUsable =>
            /\ call.temps = <<>>
            /\ call.cmds # <<>>
            /\ first.cmd = KinitKeytabCommand(id.keytab_file, id.principal)
            /\ first.via = "Execute" /\ first.stdin = None
       /\ (~KeytabFileUsable /\ id.keytab # None) =>
            /\ Len(call.temps) = 1
            /\ IF b64decode(id.keytab).ok
                 THEN /\ call.cmds # <<>>
                      /\ first.cmd = KinitKeytabCommand(call.temps[1], id.principal)
                      /\ first.via = "Execute" /\ first.stdin = None
                 ELSE call.cmds = <<>> /\ call.raised
       /\ (~KeytabFileUsable /\ id.keytab = None /\ id.password # None) =>
            /\ call.temps = <<>>
            /\ call.cmds # <<>>
            /\ first.cmd = KinitPasswordCommand(id.principal)
            /\ first.via = "Popen" /\ first.stdin = id.password
       /\ (~KeytabFileUsable /\ id.keytab = None /\ id.password = None) =>
            /\ call.cmds = <<>> /\ call.temps = <<>>
            /\ ~call.raised /\ call.ret = RPair(0, <<>>)

\* test_kinit was given a keytab_file that is not on disk, base64 keytab
\* content and a password, and ran kinit with the staged keytab.
KinitSkippedMissingKeytabFile ==
  /\ call.op = "test_kinit"
  /\ call.args.identity.principal # None
  /\ call.args.identity.keytab_file # None
  /\ ~KeytabFileUsable
  /\ call.args.identity.keytab # None
  /\ call.args.identity.password # None
  /\ call.cmds # <<>>
  /\ call.cmds[1].cmd = KinitKeytabCommand(call.temps[1], call.args.identity.principal)

\* C5, as claimed: with both a password and a keytab the password is the
\* credential kinit gets and the keytab is not used; with neither, test_kinit
\* is a no-op.
KinitPasswordPrecedence ==
  (call.op = "test_kinit" /\ call.args.identity.principal # None) =>
    LET id == call.args.identity
    IN /\ (id.password # None /\ id.keytab # None) =>
            /\ call.temps = <<>>
            /\ call.cmds # <<>>
            /\ call.cmds[1].cmd = KinitPasswordCommand(id.principal)
            /\ call.cmds[1].stdin = id.password
       /\ (id.password = None /\ id.keytab = None) =>
            /\ call.cmds = <<>>
            /\ ~call.raised /\ call.ret = RPair(0, <<>>)

\* C5, amended: with a password and a keytab the keytab is the credential
\* and the password is never fed to a subprocess.  With a keytab_file that
\* names a regular file, kinit -k -t <keytab_file> <principal> is run first;
\* otherwise, with base64 keytab content, the content is staged in a temporary
\* file and kinit -k -t <temporary file> <principal> is run first, or, when
\* the content does not decode, the call raises TypeError and runs nothing.
\* The password is fed to kinit only when there is a password, no keytab
\* content and no keytab_file naming a regular file; with no password and no
\* usable keytab, test_kinit runs nothing and returns (0, '').
KinitKeytabPrecedence ==
  (call.op = "test_kinit" /\ call.args.identity.principal # None) =>
    LET id == call.args.identity
        keytabUsable == KeytabFileUsable \/ id.keytab # None
    IN /\ (id.password # None /\ KeytabFileUsable) =>
            /\ call.cmds # <<>>
            /\ call.cmds[1].cmd = KinitKeytabCommand(id.keytab_file, id.principal)
            /\ call.temps = <<>>
       /\ (id.password # None /\ ~KeytabFileUsable /\ id.keytab # None) =>
            IF b64decode(id.keytab).ok
              THEN /\ call.cmds # <<>>
                   /\ call.cmds[1].cmd
                        = KinitKeytabCommand(call.temps[1], id.principal)
              ELSE /\ call.cmds = <<>>
                   /\ call.raised /\ call.exc = "TypeError"
       /\ (id.password # None /\ keytabUsable) =>
            \A i \in DOMAIN call.cmds :
               /\ call.cmds[i].stdin = None
               /\ Head(call.cmds[i].cmd) = "kinit" =>
                    Contains(call.cmds[i].cmd, <<"-k", " ", "-t", " ">>)
       /\ (\E i \in DOMAIN call.cmds : call.cmds[i].stdin # None) =>
            /\ id.password # None /\ ~keytabUsable
            /\ call.cmds[1].cmd = KinitPasswordCommand(id.principal)
            /\ call.cmds[1].stdin = id.password
       /\ (id.password = None /\ ~keytabUsable) =>
            /\ call.cmds = <<>>
            /\ ~call.raised /\ call.ret = RPair(0, <<>>)

\* test_kinit was given a password and base64 keytab content, and kinit ran
\* with the keytab.
KinitUsedKeytabNotPassword ==
  /\ call.op = "test_kinit"
  /\ call.args.identity.principal # None
  /\ call.args.identity.password # None
  /\ call.args.identity.keytab # None
  /\ \E i \in DOMAIN call.cmds :
       /\ Head(call.cmds[i].cmd) = "kinit"
       /\ call.cmds[i].stdin = None
       /\ call.cmds[i].code = 0

\* C9: in test_kinit a kinit that exits 0 is followed at once by kdestroy,
\* on each branch; a password kinit that exits nonzero ends test_kinit in a
\* Fail whose message is the filtered text, with no value returned and no
\* further subprocess.
KinitThenKdestroy ==
  call.op = "test_kinit" =>
    \A i \in DOMAIN call.cmds :
       /\ (Head(call.cmds[i].cmd) = "kinit" /\ call.cmds[i].code = 0) =>
            /\ i + 1 \in DOMAIN call.cmds
            /\ call.cmds[i + 1].cmd = <<"kdestroy">>
       /\ (call.cmds[i].via = "Popen" /\ call.cmds[i].code # 0) =>
            /\ call.raised /\ call.exc = "Fail" /\ call.ret = RNone
            /\ call.msg \in filter_text(<<"Execution of kinit returned ",
                                          ToString(call.cmds[i].code), ". ", "None">>,
                                        sensitive_strings)
            /\ Len(call.cmds) = i

\* A password kinit exited 0 and kdestroy ran after it.
PasswordKinitThenKdestroy ==
  /\ call.op = "test_kinit"
  /\ Len(call.cmds) = 2
  /\ call.cmds[1].via = "Popen"
  /\ call.cmds[1].code = 0
  /\ call.cmds[2].cmd = <<"kdestroy">>

\* The kadmin requests named on a command line.
KadminVerbs(command) ==
  {command[j] : j \in DOMAIN command}
    \cap {"getprinc", "addprinc", "change_password", "ktadd"}

\* s with its double quotes backslash-escaped.
Escaped(s) == Replace(s, <<"\"">>, <<"\\", "\"">>)

\* The admin identity of the finished create_or_update_administrator_identity
\* call has a non-empty principal.
AdminPrincipalConfigured ==
  /\ call.args.realm # NoIdentity
  /\ call.args.realm.admin_identity # NoIdentity
  /\ call.args.realm.admin_identity.principal # None
  /\ call.args.realm.admin_identity.principal # <<>>

\* C6, as claimed: with a realm configured,
\* create_or_update_administrator_identity runs getprinc and then exactly one
\* of change_password and addprinc, and running it again leaves the KDC as the
\* first run left it.
UpsertIsIdempotent ==
  (call.op = "create_or_update_administrator_identity"
     /\ call.args.realm # NoIdentity) =>
    /\ Len(call.cmds) = 2
    /\ KadminVerbs(call.cmds[1].cmd) = {"getprinc"}
    /\ KadminVerbs(call.cmds[2].cmd) \in {{"change_password"}, {"addprinc"}}
    /\ \A env \in Envs(2, 0, RandKeys) :
         create_or_update_administrator_identity(call.args.realm, World, env).w.kdc = kdc

\* C6, amended: when the realm's admin identity has a non-empty principal P,
\* getprinc P runs first; if it exits nonzero the call fails with nothing else
\* run, otherwise exactly one more command runs: change_password if P was in
\* the KDC, addprinc if not.  Without such a principal nothing runs.  A call
\* that completes with a password configured leaves P with that password, and
\* a second call that completes leaves the KDC as it is.
UpsertWithPasswordIsIdempotent ==
  call.op = "create_or_update_administrator_identity" =>
    IF AdminPrincipalConfigured
      THEN LET id == call.args.realm.admin_identity
           IN /\ call.cmds # <<>>
              /\ KadminVerbs(call.cmds[1].cmd) = {"getprinc"}
              /\ Contains(call.cmds[1].cmd, Escaped(id.principal))
              /\ call.cmds[1].code # 0 => (Len(call.cmds) = 1 /\ call.raised)
              /\ call.cmds[1].code = 0 =>
                   /\ Len(call.cmds) = 2
                   /\ KadminVerbs(call.cmds[2].cmd) =
                        (IF id.principal \in DOMAIN call.kdc0
                           THEN {"change_password"} ELSE {"addprinc"})
                   /\ Contains(call.cmds[2].cmd,
                               Escaped(Credentials(id.password) \o <<" ">> \o id.principal))
              /\ (~call.raised /\ id.password # None) =>
                   /\ kdc = SetKey(call.kdc0, id.principal, id.password)
                   /\ \A env \in Envs(2, 0, RandKeys) :
                        LET again == create_or_update_administrator_identity(
                                       call.args.realm, World, env)
                        IN ~again.raised => again.w.kdc = kdc
      ELSE call.cmds = <<>> /\ ~call.raised /\ kdc = call.kdc0

\* create_or_update_administrator_identity completed on an admin principal
\* an earlier run had created, by changing its password.
UpsertUpdatedExistingAdmin ==
  /\ call.op = "create_or_update_administrator_identity"
  /\ AdminPrincipalConfigured
  /\ call.args.realm.admin_identity.password # None
  /\ call.args.realm.admin_identity.principal \in DOMAIN call.kdc0
  /\ ~call.raised
  /\ Len(call.cmds) = 2
  /\ KadminVerbs(call.cmds[2].cmd) = {"change_password"}

\* The finished call is create_principal for an identity with a non-empty
\* principal and a password, with no admin identity (and so no default realm).
CreatePrincipalLocally ==
  /\ call.op = "create_principal"
  /\ call.args.auth_identity = NoIdentity
  /\ call.args.identity # NoIdentity
  /\ call.args.identity.principal # None
  /\ call.args.identity.principal # <<>>
  /\ call.args.identity.password # None

\* The addprinc command line for password W and principal P, with the given
\* blanks between kadmin.local and -q.
AddprincCommand(blanks, W, P) ==
  <<"kadmin.local">> \o blanks
    \o <<"-q", " ", "\"", "addprinc", " ", "-pw", " ", "\\", "\"">> \o Escaped(W)
    \o <<"\\", "\"", " ">> \o Escaped(P) \o <<"\"">>

\* C7, as claimed: create_principal with no admin identity runs exactly the
\* command kadmin.local  -q "addprinc -pw \"W\" P", two spaces before -q, and
\* returns true iff it exits 0.
CreatePrincipalCommandTwoSpaces ==
  CreatePrincipalLocally =>
    /\ Len(call.cmds) = 1
    /\ call.cmds[1].cmd = AddprincCommand(<<" ", " ">>, call.args.identity.password,
                                          call.args.identity.principal)
    /\ (call.ret = RBool(TRUE)) <=> (call.cmds[1].code = 0)

\* C7, amended: create_principal with no admin identity runs exactly the
\* command kadmin.local   -q "addprinc -pw \"W\" P", three spaces before -q
\* (the empty credential and realm each leave their separator), every double
\* quote of W and P backslash-escaped like the query's own, and returns true
\* iff it exits 0; a nonzero exit ends in Fail.
CreatePrincipalCommandThreeSpaces ==
  CreatePrincipalLocally =>
    /\ Len(call.cmds) = 1
    /\ call.cmds[1].cmd = AddprincCommand(<<" ", " ", " ">>,
                                          call.args.identity.password,
                                          call.args.identity.principal)
    /\ (call.ret = RBool(TRUE)) <=> (call.cmds[1].code = 0)
    /\ call.cmds[1].code # 0 => (call.raised /\ call.exc = "Fail")

\* create_principal ran kadmin.local for a principal and a password that hold
\* a double quote, and returned true.
CreatedQuotedPrincipal ==
  /\ CreatePrincipalLocally
  /\ Contains(call.args.identity.principal, <<"\"">>)
  /\ Contains(call.args.identity.password, <<"\"">>)
  /\ call.ret = RBool(TRUE)
  /\ call.args.identity.principal \in DOMAIN kdc

\* The wrapped kadmin operations, and the principal each was called for.
WrappedOperations ==
  {"principal_exists", "create_principal", "change_principal_password",
   "create_keytab_file"}

WrappedPrincipal ==
  IF call.op = "create_keytab_file" THEN call.args.principal
  ELSE call.args.identity.principal

\* How the failure message of each operation begins when it names the
\* operation it attempted.
FailurePhrases ==
  [principal_exists |-> {"Failed to determine if principal exists: "},
   create_principal |-> {"Failed to create principal: "},
   create_keytab_file |-> {"Failed to create keytab for principal: "},
   change_principal_password |-> {}]

\* C8: a wrapped kadmin operation whose invocation fails, or whose command
\* exits nonzero, ends in a Fail whose message names the principal and the
\* operation attempted -- not another operation -- with no command retried
\* and no value returned.
WrappedFailureNamesOperation ==
  (call.op \in WrappedOperations
     /\ (call.raised \/ \E i \in DOMAIN call.cmds : call.cmds[i].code # 0)) =>
    /\ call.raised /\ call.exc = "Fail" /\ call.ret = RNone
    /\ Len(call.cmds) <= 1
    /\ Contains(call.msg, WrappedPrincipal)
    /\ \A other \in WrappedOperations \ {call.op} :
         Head(call.msg) \notin FailurePhrases[other]

\* A keytab spec write_keytab_file writes: content and path both non-empty.
HasContentAndPath(item) ==
  /\ item.keytab_content_base64 # None /\ item.keytab_content_base64 # <<>>
  /\ item.keytab_file_path # None /\ item.keytab_file_path # <<>>

\* The file a path names once the call has ended.
FileAt(path) == namei(path, [fs |-> fs, dirs |-> dirs]).path

\* The files the specs of a list are to be written to.
TargetPaths(params) ==
  {FileAt(params[i].keytab_file_path) :
     i \in {j \in DOMAIN params : HasContentAndPath(params[j])}}

\* The finished call is a write_keytab_file over a list of specs that
\* returned normally.
WroteKeytabs ==
  /\ call.op = "write_keytab_file"
  /\ ~call.raised
  /\ call.args.kerberos_command_params # NoParams

\* C10, as claimed: after write_keytab_file completes, each spec with
\* non-empty content X and path P has a file at P whose bytes encode to X, the
\* other specs wrote nothing, and _set_file_access changes no file's content.
KeytabRoundTrip ==
  /\ WroteKeytabs =>
       LET params == call.args.kerberos_command_params
       IN /\ \A i \in DOMAIN params :
               HasContentAndPath(params[i]) =>
                 /\ FileAt(params[i].keytab_file_path) \in DOMAIN fs
                 /\ b64encode(fs[FileAt(params[i].keytab_file_path)].content)
                      = params[i].keytab_content_base64
          /\ \A q \in DOMAIN fs \ TargetPaths(params) :
               q \in DOMAIN call.fs0 /\ fs[q] = call.fs0[q]
  /\ call.op = "_set_file_access" =>
       /\ DOMAIN fs = DOMAIN call.fs0
       /\ \A q \in DOMAIN fs : fs[q].content = call.fs0[q].content

\* C10, amended: after write_keytab_file returns normally, each spec with
\* non-empty content X and path P, such that no later such spec has a path
\* naming the same file (under the same or another spelling), has a regular
\* file at P, in an existing directory, holding the bytes X decodes to; they
\* encode to X again exactly when X is what the encoder writes for them.  No
\* file that no such spec names is touched, and _set_file_access changes no
\* file's content.
KeytabHoldsDecodedContent ==
  /\ WroteKeytabs =>
       LET params == call.args.kerberos_command_params
       IN /\ \A i \in DOMAIN params :
               (HasContentAndPath(params[i])
                  /\ \A j \in (i + 1)..Len(params) :
                       HasContentAndPath(params[j]) =>
                         FileAt(params[j].keytab_file_path)
                           # FileAt(params[i].keytab_file_path)) =>
                 LET P == params[i].keytab_file_path
                     X == params[i].keytab_content_base64
                 IN /\ isfile([fs |-> fs, dirs |-> dirs], P)
                    /\ FileAt(P) \in DOMAIN fs
                    /\ path_head(FileAt(P)) \in DOMAIN dirs
                    /\ b64decode(X).ok
                    /\ fs[FileAt(P)].content = b64decode(X).data
                    /\ (X = b64encode(b64decode(X).data))
                         <=> (b64encode(fs[FileAt(P)].content) = X)
          /\ \A q \in DOMAIN call.fs0 : q \in DOMAIN fs
          /\ \A q \in DOMAIN fs \ TargetPaths(params) :
               q \in DOMAIN call.fs0 /\ fs[q] = call.fs0[q]
  /\ call.op = "_set_file_access" =>
       /\ DOMAIN fs = DOMAIN call.fs0
       /\ \A q \in DOMAIN fs : fs[q].content = call.fs0[q].content

\* write_keytab_file wrote two specs with different content to one file under
\* two spellings of its path, over a file that held something else, and the
\* file holds what the second decodes to.
SecondKeytabReplacedFirst ==
  /\ WroteKeytabs
  /\ Len(call.args.kerberos_command_params) = 2
  /\ HasContentAndPath(call.args.kerberos_command_params[1])
  /\ HasContentAndPath(call.args.kerberos_command_params[2])
  /\ call.args.kerberos_command_params[1].keytab_file_path
       # call.args.kerberos_command_params[2].keytab_file_path
  /\ FileAt(call.args.kerberos_command_params[1].keytab_file_path)
       = FileAt(call.args.kerberos_command_params[2].keytab_file_path)
  /\ call.args.kerberos_command_params[1].keytab_content_base64
       # call.args.kerberos_command_params[2].keytab_content_base64
  /\ FileAt(call.args.kerberos_command_params[2].keytab_file_path)
       \in DOMAIN call.fs0
  /\ fs[FileAt(call.args.kerberos_command_params[2].keytab_file_path)].content
       = b64decode(call.args.kerberos_command_params[2].keytab_content_base64).data
  /\ fs[FileAt(call.args.kerberos_command_params[2].keytab_file_path)].content
       # call.fs0[FileAt(call.args.kerberos_command_params[2].keytab_file_path)].content

====
